---- MODULE Spec2Model ----
(***************************************************************************)
(* Kochi Metro induction planner (streamlit_induction_app.py).             *)
(*                                                                         *)
(* The script is modelled statement block by statement block: the call of  *)
(* evaluate() (its prologue, one loop iteration per roster row, its        *)
(* return), the rank-and-assign block, the data editor and the what-if     *)
(* re-run.  Dates are day numbers.  Mileages are integers, so that the     *)
(* mean and the sample standard deviation pandas computes are exact        *)
(* rationals / square roots of rationals; a score is kept symbolically     *)
(* (branding, deviation from the mean, variance) and scores are compared   *)
(* exactly, without rounding.  The echoed bay_position column and the      *)
(* informational job_card_open column take no part in any decision and     *)
(* are left out of the rows.                                               *)
(***************************************************************************)
EXTENDS Integers, Sequences, FiniteSets, TLC

\* ------------------------------------------------------------------ bounds
MaxTrains == 3
MaxSlots == 2

\* ------------------------------------------------------- special cell values
\* pd.to_datetime(..., errors="coerce") turns an unparsable or empty date into NaT
NaT == -1
\* an empty numeric cell is read as NaN (pd.isna is true of it)
NaN == -1
\* a cell holding text that is not a number, e.g. "high"
NonNumeric == -2
\* cleaning_capacity = None: no capacity is known
None == -1

IsNA(x) == x = NaN

\* ------------------------------------------------------------ input tables
NoTable == [present |-> FALSE, has_available |-> FALSE, rows |-> <<>>]

JobTable(cards) == [present |-> TRUE, has_available |-> FALSE, rows |-> cards]

SlotTable(hasCol, avail) == [present |-> TRUE, has_available |-> hasCol, rows |-> avail]

Card(t, s) == [train_id |-> t, severity |-> s]

Train(t, f, c, b, m) ==
    [train_id |-> t, fitness_valid_until |-> f, needs_cleaning |-> c,
     branding_priority |-> b, mileage_last_week |-> m]

\* ------------------------------------------------------------------- state
VARIABLES
    df,                      \* roster read from the trainsets CSV
    today,                   \* reference date
    job_cards,               \* job-card table or absent
    cleaning_slots,          \* cleaning-slot table or absent
    required_service_count,  \* sidebar: service quota
    standby_count,           \* sidebar: standby quota
    edited,                  \* the data editor's copy of df
    pc,                      \* position of the script
    call,                    \* which call of evaluate is running: "main" or "whatif"
    cleaning_capacity,       \* evaluate: capacity or None
    cleaning_used,           \* evaluate: units consumed so far
    mileage_mean,            \* evaluate: mean of the mileage column
    mileage_std,             \* evaluate: std of the mileage column (or 1)
    idx,                     \* evaluate: number of the row the loop is at
    rows,                    \* evaluate: result rows accumulated so far
    evaluated,               \* result of the main call
    new_eval,                \* result of the what-if call
    service, standby, remaining,   \* the three buckets
    new_service              \* what-if: updated service list

inputs == <<df, today, job_cards, cleaning_slots, required_service_count, standby_count>>

locals == <<cleaning_capacity, cleaning_used, mileage_mean, mileage_std, idx, rows>>

buckets == <<service, standby, remaining>>

vars == <<df, today, job_cards, cleaning_slots, required_service_count, standby_count,
          edited, pc, call, cleaning_capacity, cleaning_used, mileage_mean, mileage_std,
          idx, rows, evaluated, new_eval, service, standby, remaining, new_service>>

\* ---------------------------------------------------------------- helpers
RECURSIVE SumSeq(_)
SumSeq(s) == IF s = <<>> THEN 0 ELSE Head(s) + SumSeq(Tail(s))

RECURSIVE SelectNum(_)
\* the non-missing cells of a numeric column (pandas skips NaN in mean and std)
SelectNum(s) ==
    IF s = <<>> THEN <<>>
    ELSE IF IsNA(Head(s)) THEN SelectNum(Tail(s))
    ELSE <<Head(s)>> \o SelectNum(Tail(s))

Mileages(frame) == [k \in 1..Len(frame) |-> frame[k].mileage_last_week]

Squares(s) == [k \in 1..Len(s) |-> s[k] * s[k]]

\* a column holding text cannot be averaged: Series.mean() raises
MeanRaises(frame) == \E k \in 1..Len(frame) : frame[k].mileage_last_week = NonNumeric

\* Series.mean(): sum / count over the non-missing cells, NaN when there are none
Mean(frame) ==
    LET x == SelectNum(Mileages(frame))
    IN  [nan |-> Len(x) = 0, sum |-> SumSeq(x), count |-> Len(x)]

\* Series.std(): sample standard deviation (ddof = 1) over the non-missing cells,
\* kept as its square num / den; NaN when fewer than two cells are left
Std(frame) ==
    LET x == SelectNum(Mileages(frame))
        k == Len(x)
    IN  IF k < 2 THEN [nan |-> TRUE, num |-> 0, den |-> 1]
        ELSE [nan |-> FALSE,
              num |-> k * SumSeq(Squares(x)) - SumSeq(x) * SumSeq(x),
              den |-> k * (k - 1)]

\* "std or 1": Python takes the right operand only when the left one is falsy;
\* 0.0 is falsy, NaN is truthy
OrOne(s) == IF ~s.nan /\ s.num = 0 THEN [nan |-> FALSE, num |-> 1, den |-> 1] ELSE s

\* cleaning_slots[cleaning_slots["available"] == True].shape[0], or None
CleaningCapacity(cs) ==
    IF cs.present /\ cs.has_available
    THEN Cardinality({k \in 1..Len(cs.rows) : cs.rows[k] = TRUE})
    ELSE None

\* bug: a fitness date equal to the reference date counts as expired
FitnessExpiredInclusive(r, t) == r.fitness_valid_until = NaT \/ r.fitness_valid_until <= t

\* pd.isna(fitness) or fitness < today
FitnessExpired(r, t) == r.fitness_valid_until = NaT \/ r.fitness_valid_until < t

\* job_cards is not None and train_id in job_cards["train_id"].values
HasJobCard(r, jc) ==
    jc.present /\ \E k \in 1..Len(jc.rows) : jc.rows[k].train_id = r.train_id

\* severity of the first job card of the train (.iloc[0])
Severity(r, jc) ==
    LET first == CHOOSE k \in 1..Len(jc.rows) :
                     /\ jc.rows[k].train_id = r.train_id
                     /\ \A j \in 1..(k - 1) : jc.rows[j].train_id # r.train_id
    IN  jc.rows[first].severity

JobCardReason(sev) ==
    CASE sev = "low" -> "Open job-card (low)"
      [] sev = "medium" -> "Open job-card (medium)"
      [] sev = "high" -> "Open job-card (high)"
      [] OTHER -> "Open job-card (N/A)"

\* bug: a train already blocked still asks for a cleaning slot
ConsumesCapacityAlways(cap, eligible) == cap # None

\* cleaning_capacity is not None and eligible
ConsumesCapacity(cap, eligible) == cap # None /\ eligible

\* bug: one unit more than the capacity is granted
SlotFreeInclusive(used, cap) == used <= cap

\* cleaning_used < cleaning_capacity
SlotFree(used, cap) == used < cap

\* bug: the counter is a module-level variable that is never reset
CleaningUsedKept(old) == old

\* cleaning_used = 0 at the entry of evaluate, whatever an earlier call left
CleaningUsedAtEntry(old) == 0

\* score = branding * 1000 - ((mileage - mean) / std) * 100, kept symbolically:
\*   1000 * branding - 100 * (dev / count) / sqrt(num / den)
\* NaN as soon as the mean or the std is NaN
Score(branding, mileage, mean, std) ==
    IF mean.nan \/ std.nan
    THEN [nan |-> TRUE, branding |-> 0, dev |-> 0, count |-> 1, num |-> 1, den |-> 1]
    ELSE [nan |-> FALSE, branding |-> branding,
          dev |-> mileage * mean.count - mean.sum, count |-> mean.count,
          num |-> std.num, den |-> std.den]

\* s1 > s2 as floating-point numbers of one run (same mean and std); any
\* comparison with NaN is false.
\*   1000 b1 - 100 d1/(c sigma) > 1000 b2 - 100 d2/(c sigma)
\*   <=>  10 (b1 - b2) c sigma > d1 - d2,   sigma = sqrt(num / den)
ScoreGT(s1, s2) ==
    /\ ~s1.nan /\ ~s2.nan
    /\ LET a == 10 * (s1.branding - s2.branding) * s1.count
           b == s1.dev - s2.dev
       IN  \/ a >= 0 /\ b < 0
           \/ a > 0 /\ b >= 0 /\ a * a * s1.num > b * b * s1.den
           \/ a < 0 /\ b < 0 /\ a * a * s1.num < b * b * s1.den

ScoreGE(s1, s2) == ~s1.nan /\ ~s2.nan /\ ~ScoreGT(s2, s1)

\* the three checks of one loop iteration, in the order of the code: the
\* eligible flag, the reason list and the capacity counter after the row
RowChecks(r, t, jc, cap, used) ==
    LET e1 == ~FitnessExpired(r, t)
        r1 == IF e1 THEN <<>> ELSE <<"Expired fitness">>
        e2 == e1 /\ ~HasJobCard(r, jc)
        r2 == IF HasJobCard(r, jc)
              THEN Append(r1, JobCardReason(Severity(r, jc))) ELSE r1
        r3 == IF r.needs_cleaning THEN Append(r2, "Needs cleaning") ELSE r2
        asks == r.needs_cleaning /\ ConsumesCapacity(cap, e2)
        free == SlotFree(used, cap)
    IN  [eligible |-> IF asks /\ ~free THEN FALSE ELSE e2,
         reason |-> IF asks /\ ~free THEN Append(r3, "No cleaning slot available") ELSE r3,
         used |-> IF asks /\ free THEN used + 1 ELSE used]

\* int(x) / float(x) raise ValueError on text
Raises(x) == x = NonNumeric

\* x if not pd.isna(x) else 0
Coerce(x) == IF IsNA(x) THEN 0 ELSE x

\* the dictionary appended to rows
ResultRow(r, checks, mean, std) ==
    LET branding == Coerce(r.branding_priority)
        mileage == Coerce(r.mileage_last_week)
    IN  [train_id |-> r.train_id,
         eligible |-> checks.eligible,
         score |-> Score(branding, mileage, mean, std),
         reason |-> IF checks.reason = <<>> THEN <<"OK">> ELSE checks.reason,
         branding_priority |-> branding,
         mileage_last_week |-> mileage]

\* --------------------------------------------------------- rank and assign
Min(a, b) == IF a < b THEN a ELSE b

\* frame[frame["eligible"]] and frame[~frame["eligible"]]: row order is kept
EligibleRows(frame) == SelectSeq(frame, LAMBDA x : x.eligible)

IneligibleRows(frame) == SelectSeq(frame, LAMBDA x : ~x.eligible)

Orders(n) == {p \in [1..n -> 1..n] : \A a, b \in 1..n : p[a] = p[b] => a = b}

\* sort_values(by="score", ascending=False): the rows in descending score
\* order, NaN scores last.  The default sort is not stable, so every order of
\* rows with equal scores is a possible outcome.
SortValues(frame) ==
    {s \in {[k \in 1..Len(frame) |-> frame[p[k]]] : p \in Orders(Len(frame))} :
        \A a, b \in 1..Len(frame) :
            a < b => /\ ~ScoreGT(s[b].score, s[a].score)
                     /\ ~(s[a].score.nan /\ ~s[b].score.nan)}

\* bug: the service bucket is cut one row short
HeadRowsShort(frame, n) == SubSeq(frame, 1, Min(n - 1, Len(frame)))

\* frame.head(n), n >= 0
HeadRows(frame, n) == SubSeq(frame, 1, Min(n, Len(frame)))

\* frame.iloc[lo:hi], 0 <= lo <= hi
Slice(frame, lo, hi) == SubSeq(frame, Min(lo, Len(frame)) + 1, Min(hi, Len(frame)))

\* bug: the rest starts one row late, so a train is dropped
SliceFromNext(frame, lo) == SubSeq(frame, Min(lo + 1, Len(frame)) + 1, Len(frame))

\* frame.iloc[lo:]
SliceFrom(frame, lo) == SubSeq(frame, Min(lo, Len(frame)) + 1, Len(frame))

\* frame["assignment"] = a
Assign(frame, a) ==
    [k \in 1..Len(frame) |->
        [train_id |-> frame[k].train_id, eligible |-> frame[k].eligible,
         score |-> frame[k].score, reason |-> frame[k].reason,
         branding_priority |-> frame[k].branding_priority,
         mileage_last_week |-> frame[k].mileage_last_week,
         assignment |-> a]]

\* result = pd.concat([service, standby, remaining])
result == service \o standby \o remaining

\* the frame the running call of evaluate was given
Frame == IF call = "main" THEN df ELSE edited

\* ----------------------------------------------------------------- actions
\* evaluate(), lines 64-73: capacity, counter, mean and std of the mileage column
EvaluateBegin ==
    /\ pc = "call"
    /\ IF MeanRaises(Frame)
       THEN /\ pc' = "error"
            /\ UNCHANGED locals
       ELSE /\ pc' = "loop"
            /\ rows' = <<>>
            /\ cleaning_capacity' = CleaningCapacity(cleaning_slots)
            /\ cleaning_used' = CleaningUsedAtEntry(cleaning_used)
            /\ mileage_mean' = Mean(Frame)
            /\ mileage_std' = OrOne(Std(Frame))
            /\ idx' = 1
    /\ UNCHANGED <<inputs, edited, call, evaluated, new_eval, buckets, new_service>>

\* evaluate(), lines 75-118: one iteration of the loop over the rows
EvaluateRow ==
    /\ pc = "loop"
    /\ idx <= Len(Frame)
    /\ LET r == Frame[idx]
           checks == RowChecks(r, today, job_cards, cleaning_capacity, cleaning_used)
       IN  /\ cleaning_used' = checks.used
           /\ IF Raises(r.branding_priority) \/ Raises(r.mileage_last_week)
              THEN /\ pc' = "error"
                   /\ UNCHANGED <<rows, idx>>
              ELSE /\ rows' = Append(rows, ResultRow(r, checks, mileage_mean, mileage_std))
                   /\ idx' = idx + 1
                   /\ pc' = pc
    /\ UNCHANGED <<inputs, edited, call, cleaning_capacity, mileage_mean, mileage_std,
                   evaluated, new_eval, buckets, new_service>>

\* evaluate() returns (line 119) into evaluated (line 127) or new_eval (line 222)
EvaluateReturn ==
    /\ pc = "loop"
    /\ idx > Len(Frame)
    /\ IF call = "main"
       THEN /\ evaluated' = rows
            /\ pc' = "rank"
            /\ UNCHANGED new_eval
       ELSE /\ new_eval' = rows
            /\ pc' = "update"
            /\ UNCHANGED evaluated
    /\ UNCHANGED <<inputs, edited, call, locals, buckets, new_service>>

\* lines 130-142: sort the eligible rows by score and cut the three buckets
RankAndAssign ==
    /\ pc = "rank"
    /\ \E eligible_df \in SortValues(EligibleRows(evaluated)) :
         LET ineligible_df == IneligibleRows(evaluated)
             n == required_service_count
             m == standby_count
         IN  /\ service' = Assign(HeadRows(eligible_df, n), "Service")
             /\ standby' = Assign(Slice(eligible_df, n, n + m), "Standby")
             /\ remaining' = Assign(SliceFrom(eligible_df, n + m) \o ineligible_df,
                                    "Maintenance/Blocked")
    /\ pc' = "editor"
    /\ UNCHANGED <<inputs, edited, call, locals, evaluated, new_eval, new_service>>

\* lines 215-218: the operator edits a cell of the table (here: ticks or
\* unticks needs_cleaning of one row); at most one edit before the re-run
DataEditor ==
    /\ pc = "editor"
    /\ edited = df
    /\ \E k \in 1..Len(df) :
         edited' = [edited EXCEPT ![k].needs_cleaning = ~edited[k].needs_cleaning]
    /\ UNCHANGED <<inputs, pc, call, locals, evaluated, new_eval, buckets, new_service>>

\* lines 220-222: the re-run button calls evaluate on the edited table
Rerun ==
    /\ pc = "editor"
    /\ call' = "whatif"
    /\ pc' = "call"
    /\ UNCHANGED <<inputs, edited, locals, evaluated, new_eval, buckets, new_service>>

\* lines 223-224: the updated service list
UpdateService ==
    /\ pc = "update"
    /\ \E sorted \in SortValues(EligibleRows(new_eval)) :
         new_service' = [k \in 1..Min(required_service_count, Len(sorted)) |->
                            sorted[k].train_id]
    /\ pc' = "done"
    /\ UNCHANGED <<inputs, edited, call, locals, evaluated, new_eval, buckets>>

Next ==
    \/ EvaluateBegin
    \/ EvaluateRow
    \/ EvaluateReturn
    \/ RankAndAssign
    \/ DataEditor
    \/ Rerun
    \/ UpdateService

\* ------------------------------------------------------------------ inputs
\* rosters of 1..MaxTrains trains, train k carrying train_id k, whose
\* <<fitness, needs_cleaning, branding, mileage>> cells are drawn from kinds
Rosters(kinds) ==
    UNION {{[k \in 1..n |-> Train(k, g[k][1], g[k][2], g[k][3], g[k][4])] :
              g \in [1..n -> kinds]} : n \in 1..MaxTrains}

\* cleaning-slot tables: absent, without the available column, or MaxSlots
\* slots of which the last c are available
SlotTables ==
    {NoTable, SlotTable(FALSE, <<TRUE>>)}
    \cup {SlotTable(TRUE, [k \in 1..MaxSlots |-> k > MaxSlots - c]) : c \in 0..MaxSlots}

\* job-card tables: absent, or cards of train 2 (two of them) and of a train
\* that is not in the roster
JobTables ==
    {NoTable, JobTable(<<Card(2, "high"), Card(2, "low"), Card(9, "medium")>>)}

\* the sidebar's quotas: service >= 1, standby >= 0
ServiceQuotas == {1, 2}

StandbyQuotas == {0, 1, 2}

\* rosters that differ in what decides eligibility: the fitness date (missing,
\* the day before, the reference date itself) and the cleaning flag
EligibilityKinds == {<<f, c, 1, 20>> : f \in {NaT, 0, 1}, c \in BOOLEAN}

\* rosters that differ in what decides the ranking: one ineligible kind and
\* eligible trains of different branding and mileage, one with no mileage
AllocationKinds ==
    {<<0, FALSE, 1, 0>>, <<1, FALSE, 0, NaN>>}
    \cup {<<1, FALSE, b, m>> : b \in {0, 1}, m \in {0, 20}}

\* rosters that differ in the two scored cells: a number, empty, or text
ScoringKinds ==
    {<<2, FALSE, b, m>> : b \in {NaN, NonNumeric, 0, 1}, m \in {NaN, NonNumeric, 0, 20}}

\* a few rosters with text in a scored cell, so that every path of the
\* script is taken whatever the family of rosters
TextRosters ==
    {<<Train(1, 2, TRUE, NonNumeric, 20)>>,
     <<Train(1, 2, TRUE, 0, 20), Train(2, 1, FALSE, 1, NonNumeric)>>}

InitWith(rosters, jobs, slots, sq, sb) ==
    /\ df \in rosters
    /\ today = 1
    /\ job_cards \in jobs
    /\ cleaning_slots \in slots
    /\ required_service_count \in sq
    /\ standby_count \in sb
    /\ edited = df
    /\ pc = "call"
    /\ call = "main"
    /\ cleaning_capacity = None
    /\ cleaning_used = 0
    /\ mileage_mean = [nan |-> TRUE, sum |-> 0, count |-> 0]
    /\ mileage_std = [nan |-> TRUE, num |-> 0, den |-> 1]
    /\ idx = 0
    /\ rows = <<>>
    /\ evaluated = <<>>
    /\ new_eval = <<>>
    /\ service = <<>>
    /\ standby = <<>>
    /\ remaining = <<>>
    /\ new_service = <<>>

\* eligibility and cleaning capacity
Init == InitWith(Rosters(EligibilityKinds) \cup TextRosters, JobTables, SlotTables, {1}, {1})

Spec == Init /\ [][Next]_vars

\* ranking and allocation
InitAlloc == InitWith(Rosters(AllocationKinds) \cup TextRosters, {NoTable}, {NoTable},
                      ServiceQuotas, StandbyQuotas)

SpecAlloc == InitAlloc /\ [][Next]_vars

\* scoring
InitScore == InitWith(Rosters(ScoringKinds), {NoTable}, {NoTable, SlotTable(TRUE, <<TRUE>>)},
                      {1}, {0, 1})

SpecScore == InitScore /\ [][Next]_vars

\* ------------------------------------------------------------------ claims
\* what the claims speak about, read off the input tables and the result
\* rows only (never off the operators the actions are built from)
FitnessOk(r) == r.fitness_valid_until # NaT /\ r.fitness_valid_until >= today

NoOpenJobCard(r) ==
    ~job_cards.present
    \/ \A k \in 1..Len(job_cards.rows) : job_cards.rows[k].train_id # r.train_id

CapacityKnown == cleaning_slots.present /\ cleaning_slots.has_available

Capacity == Cardinality({k \in 1..Len(cleaning_slots.rows) : cleaning_slots.rows[k]})

Contains(reason, text) == \E k \in 1..Len(reason) : reason[k] = text

\* the rows that need cleaning and pass the fitness and job-card checks
Candidates(frame) ==
    {k \in 1..Len(frame) :
        frame[k].needs_cleaning /\ FitnessOk(frame[k]) /\ NoOpenJobCard(frame[k])}

\* how many candidates come before row k
CandidatesBefore(frame, k) == Cardinality({j \in Candidates(frame) : j < k})

\* the units consumed when row k is reached: the earlier rows that were let
\* through although they need cleaning
ConsumedBefore(frame, out, k) ==
    IF CapacityKnown
    THEN Cardinality({j \in 1..(k - 1) : frame[j].needs_cleaning /\ out[j].eligible})
    ELSE 0

Returned == pc \in {"rank", "editor"} \/ call = "whatif"

ReturnedAgain == pc \in {"update", "done"}

Ranked == pc = "editor" \/ call = "whatif"

EligibleIff(frame, out) ==
    \A k \in 1..Len(out) :
        out[k].eligible
          <=> /\ FitnessOk(frame[k])
              /\ NoOpenJobCard(frame[k])
              /\ \/ ~frame[k].needs_cleaning
                 \/ ~CapacityKnown
                 \/ ConsumedBefore(frame, out, k) < Capacity

\* C1: a result row is eligible exactly when the fitness date is present and
\* not before the reference date, the train has no job card, and it needs no
\* cleaning or no capacity is known or fewer than capacity units were consumed
\* when the row was reached; this for the main call and for the what-if call.
C1_EligibleExactlyWhen ==
    /\ Returned => Len(evaluated) = Len(df) /\ EligibleIff(df, evaluated)
    /\ ReturnedAgain => Len(new_eval) = Len(edited) /\ EligibleIff(edited, new_eval)

\* a run in which a fitness date equal to the reference date passes, a missing
\* date fails, and a train is turned down for want of a cleaning slot
C1_Witness ==
    /\ pc = "rank"
    /\ \E a, b, c \in 1..Len(df) :
         /\ df[a].fitness_valid_until = today /\ evaluated[a].eligible
         /\ df[b].fitness_valid_until = NaT /\ ~evaluated[b].eligible
         /\ FitnessOk(df[c]) /\ NoOpenJobCard(df[c]) /\ ~evaluated[c].eligible

CapacityBound(frame, out) ==
    CapacityKnown =>
      /\ Cardinality({k \in 1..Len(out) : out[k].eligible /\ frame[k].needs_cleaning})
           <= Capacity
      /\ \A k \in Candidates(frame) :
           (k <= Len(out) /\ CandidatesBefore(frame, k) >= Capacity)
             => /\ ~out[k].eligible
                /\ Contains(out[k].reason, "Needs cleaning")
                /\ Contains(out[k].reason, "No cleaning slot available")

\* C2: with a known capacity the eligible trains that need cleaning number at
\* most the capacity, and a candidate arriving after the capacity is used up
\* is ineligible with the reasons "Needs cleaning" and "No cleaning slot available".
C2_CleaningCapacity ==
    /\ Returned => CapacityBound(df, evaluated)
    /\ ReturnedAgain => CapacityBound(edited, new_eval)

\* a run with capacity 1 in which one candidate gets the slot and a later one does not
C2_Witness ==
    /\ pc = "rank" /\ CapacityKnown /\ Capacity = 1
    /\ \E a, b \in Candidates(df) :
         /\ a < b
         /\ evaluated[a].eligible
         /\ Contains(evaluated[b].reason, "No cleaning slot available")

TrainIds(frame) == {frame[k].train_id : k \in 1..Len(frame)}

\* C3: after rank-and-assign every input train is in exactly one of the three
\* buckets, under the assignment of that bucket, and the sizes add up.
C3_Partition ==
    Ranked =>
      /\ Len(service) + Len(standby) + Len(remaining) = Len(df)
      /\ \A t \in TrainIds(df) :
           Cardinality({k \in 1..Len(result) : result[k].train_id = t}) = 1
      /\ \A k \in 1..Len(service) : service[k].assignment = "Service"
      /\ \A k \in 1..Len(standby) : standby[k].assignment = "Standby"
      /\ \A k \in 1..Len(remaining) : remaining[k].assignment = "Maintenance/Blocked"

\* an allocation with trains in all three buckets
C3_Witness ==
    /\ pc = "editor"
    /\ Len(service) > 0 /\ Len(standby) > 0 /\ Len(remaining) > 0

EligibleCount == Cardinality({k \in 1..Len(evaluated) : evaluated[k].eligible})

C5_RankAndCut ==
    Ranked =>
      /\ \A k \in 1..Len(service) : service[k].eligible
      /\ \A k \in 1..Len(standby) : standby[k].eligible
      /\ \A a \in 1..Len(service), b \in 1..Len(standby) :
           ScoreGE(service[a].score, standby[b].score)
      /\ \A b \in 1..Len(standby), c \in 1..Len(remaining) :
           remaining[c].eligible => ScoreGE(standby[b].score, remaining[c].score)

\* C6: of two eligible trains of one run the one with the higher branding has
\* the strictly higher score, and with equal branding the one with the lower
\* mileage has a score that is not lower.  Stated for the runs whose scores are
\* numbers, so that a violation owes nothing to the undefined scores of C8.
C6_BrandingThenMileage ==
    Returned =>
      \A a, b \in 1..Len(evaluated) :
        (evaluated[a].eligible /\ evaluated[b].eligible
           /\ ~evaluated[a].score.nan /\ ~evaluated[b].score.nan)
        => /\ evaluated[a].branding_priority > evaluated[b].branding_priority
                => ScoreGT(evaluated[a].score, evaluated[b].score)
           /\ (evaluated[a].branding_priority = evaluated[b].branding_priority
                 /\ evaluated[a].mileage_last_week < evaluated[b].mileage_last_week)
                => ~ScoreGT(evaluated[b].score, evaluated[a].score)

\* C7: text or an empty cell in branding_priority or mileage_last_week never
\* raises: evaluate is never left by an exception.
C7_NeverRaises == pc # "error"

\* C8: every train of every roster has a score that is a number.  Stated for
\* the rosters the claim lists, those with a mileage in at least one row.
C8_ScoreDefined ==
    (Returned /\ \E k \in 1..Len(df) : ~IsNA(df[k].mileage_last_week))
      => \A k \in 1..Len(evaluated) : ~evaluated[k].score.nan

FirstCome(frame, out) ==
    CapacityKnown =>
      \A k \in 1..Len(out) :
        /\ (frame[k].needs_cleaning /\ out[k].eligible)
             <=> (k \in Candidates(frame) /\ CandidatesBefore(frame, k) < Capacity)
        /\ (~FitnessOk(frame[k]) \/ ~NoOpenJobCard(frame[k]))
             => /\ ~Contains(out[k].reason, "No cleaning slot available")
                /\ Contains(out[k].reason, "Needs cleaning") <=> frame[k].needs_cleaning

\* C9: with capacity c the trains that take a unit are exactly the first c
\* candidates in row order, the counter counts just these, and a train failing
\* the fitness or job-card check takes no unit and never gets "No cleaning slot
\* available" but still gets "Needs cleaning".
C9_FirstComeInRowOrder ==
    /\ Returned => FirstCome(df, evaluated)
    /\ ReturnedAgain => FirstCome(edited, new_eval)
    /\ (CapacityKnown /\ pc = "loop")
         => cleaning_used = Min(Capacity, CandidatesBefore(Frame, idx))

\* capacity 1: a blocked train needing cleaning comes first, takes nothing, and
\* the first candidate after it gets the slot while the second is turned down
C9_Witness ==
    /\ pc = "rank" /\ CapacityKnown /\ Capacity = 1
    /\ \E a, b, c \in 1..Len(df) :
         /\ a < b /\ b < c
         /\ df[a].needs_cleaning /\ ~FitnessOk(df[a])
         /\ b \in Candidates(df) /\ evaluated[b].eligible
         /\ c \in Candidates(df) /\ ~evaluated[c].eligible

\* C10: every call of evaluate starts with no capacity consumed, and the
\* what-if call on an unedited table returns what the main call returned.
C10_IndependentRuns ==
    /\ (pc = "loop" /\ idx = 1) => cleaning_used = 0
    /\ (ReturnedAgain /\ edited = df) => new_eval = evaluated

\* a what-if call on the unedited table after a main call that used up the capacity
C10_Witness ==
    /\ pc = "done" /\ edited = df
    /\ CapacityKnown /\ Capacity > 0
    /\ \E k \in 1..Len(new_eval) : Contains(new_eval[k].reason, "No cleaning slot available")

====
